---- MODULE Spec2Model ----
(***************************************************************************)
(* Factorial mocker (mocker_firefox_extension/background.js): a blocking   *)
(* webRequest listener that opens a StreamFilter on every response whose   *)
(* URL is not in NOT_INTERESTING_URLS, decodes the first data event as     *)
(* UTF-8, tries JSON.parse, lets handle_mocking mutate the parsed value in *)
(* place, writes the re-serialised value (or, on any exception, the        *)
(* decoded text) and disconnects the filter.                                *)
(*                                                                          *)
(* Bytes are integers 0..255, text is a sequence of Unicode code points,   *)
(* a JSON value is a record [t, n, s, k, a]:                                *)
(*   t = "null" | "bool" | "num" | "str" | "arr" | "obj"                    *)
(*   n = the number, or 1/0 for true/false                                  *)
(*   s = the characters of a string                                         *)
(*   k = the keys of an object, in JavaScript property order                *)
(*   a = the elements of an array, or the values of an object's keys        *)
(***************************************************************************)
EXTENDS Integers, Sequences, FiniteSets, TLC

(***************************************************************************)
(* Configuration lists of the extension.                                    *)
(***************************************************************************)
INTERESTING_URLS ==
    << "https://api.factorialhr.com/companies",
       "https://api.factorialhr.com/permissions/permissions/authorize_policies",
       "https://api.factorialhr.com/posts/groups" >>

NOT_INTERESTING_URLS ==
    << "https://api.factorialhr.com/ats/companies",
       "https://api.factorialhr.com/teams",
       "https://api.factorialhr.com/company_holidays",
       "https://api.factorialhr.com/memberships",
       "https://api.factorialhr.com/visits",
       "https://api.factorialhr.com/accesses/become",
       "https://api.factorialhr.com/api/rest/marketplace/user_installation",
       "https://api.factorialhr.com/job_catalog/salary_ranges",
       "https://api.factorialhr.com/job_catalog/roles",
       "https://api.factorialhr.com/job_catalog/levels",
       "https://api.factorialhr.com/genders",
       "https://api.factorialhr.com/legal_genders",
       "https://api.factorialhr.com/legal_entities",
       "https://api.factorialhr.com/locations",
       "https://api.factorialhr.com/billing/subscriptions",
       "https://api.factorialhr.com/policies" >>

\* Array.prototype.includes on an array of strings.
includes(arr, x) == \E i \in 1..Len(arr) : arr[i] = x

\* An address the extension's listener sees (*://api.factorialhr.com/*) that
\* is in neither list.
UNKNOWN_URL == "https://api.factorialhr.com/employees"

URL_COMPANIES == "https://api.factorialhr.com/companies"

URL_AUTHORIZE_POLICIES ==
    "https://api.factorialhr.com/permissions/permissions/authorize_policies"

URL_POSTS_GROUPS == "https://api.factorialhr.com/posts/groups"

\* Property names the transforms read and write, as code point sequences.
K_permissions == <<112, 101, 114, 109, 105, 115, 115, 105, 111, 110, 115>>

K_attendance == <<97, 116, 116, 101, 110, 100, 97, 110, 99, 101>>

K_approve == <<97, 112, 112, 114, 111, 118, 101>>

K_payroll == <<112, 97, 121, 114, 111, 108, 108>>

K_edit_supplements == <<101, 100, 105, 116, 95, 115, 117, 112, 112, 108, 101, 109, 101, 110, 116, 115>>

K_policy_key == <<112, 111, 108, 105, 99, 121, 95, 107, 101, 121>>

K_authorize == <<97, 117, 116, 104, 111, 114, 105, 122, 101>>

\* const MOCK_POLICIES inside mock_authorize_policies.
MOCK_POLICIES ==
    <<
      \* contracts.create_additional_compensation_type
      <<99, 111, 110, 116, 114, 97, 99, 116, 115, 46, 99, 114, 101, 97, 116, 101, 95, 97, 100, 100, 105, 116, 105, 111, 110, 97, 108, 95, 99, 111, 109, 112, 101, 110, 115, 97, 116, 105, 111, 110, 95, 116, 121, 112, 101>>,
      \* contracts.delete_contracts
      <<99, 111, 110, 116, 114, 97, 99, 116, 115, 46, 100, 101, 108, 101, 116, 101, 95, 99, 111, 110, 116, 114, 97, 99, 116, 115>>,
      \* contracts.edit
      <<99, 111, 110, 116, 114, 97, 99, 116, 115, 46, 101, 100, 105, 116>>,
      \* contracts.promote
      <<99, 111, 110, 116, 114, 97, 99, 116, 115, 46, 112, 114, 111, 109, 111, 116, 101>>,
      \* contracts.read
      <<99, 111, 110, 116, 114, 97, 99, 116, 115, 46, 114, 101, 97, 100>>,
      \* contracts.see_end_date
      <<99, 111, 110, 116, 114, 97, 99, 116, 115, 46, 115, 101, 101, 95, 101, 110, 100, 95, 100, 97, 116, 101>>,
      \* employee.create
      <<101, 109, 112, 108, 111, 121, 101, 101, 46, 99, 114, 101, 97, 116, 101>>,
      \* employee.invite
      <<101, 109, 112, 108, 111, 121, 101, 101, 46, 105, 110, 118, 105, 116, 101>>,
      \* employee.become
      <<101, 109, 112, 108, 111, 121, 101, 101, 46, 98, 101, 99, 111, 109, 101>>,
      \* employee_profile.company_identifier.edit
      <<101, 109, 112, 108, 111, 121, 101, 101, 95, 112, 114, 111, 102, 105, 108, 101, 46, 99, 111, 109, 112, 97, 110, 121, 95, 105, 100, 101, 110, 116, 105, 102, 105, 101, 114, 46, 101, 100, 105, 116>>,
      \* employee_profile.company_identifier.see
      <<101, 109, 112, 108, 111, 121, 101, 101, 95, 112, 114, 111, 102, 105, 108, 101, 46, 99, 111, 109, 112, 97, 110, 121, 95, 105, 100, 101, 110, 116, 105, 102, 105, 101, 114, 46, 115, 101, 101>>,
      \* finance.cost_center_memberships.see
      <<102, 105, 110, 97, 110, 99, 101, 46, 99, 111, 115, 116, 95, 99, 101, 110, 116, 101, 114, 95, 109, 101, 109, 98, 101, 114, 115, 104, 105, 112, 115, 46, 115, 101, 101>>,
      \* goals.read
      <<103, 111, 97, 108, 115, 46, 114, 101, 97, 100>>,
      \* leaves.download
      <<108, 101, 97, 118, 101, 115, 46, 100, 111, 119, 110, 108, 111, 97, 100>>,
      \* payroll.manage_payroll
      <<112, 97, 121, 114, 111, 108, 108, 46, 109, 97, 110, 97, 103, 101, 95, 112, 97, 121, 114, 111, 108, 108>>,
      \* planning_versions.edit
      <<112, 108, 97, 110, 110, 105, 110, 103, 95, 118, 101, 114, 115, 105, 111, 110, 115, 46, 101, 100, 105, 116>>,
      \* planning_versions.read
      <<112, 108, 97, 110, 110, 105, 110, 103, 95, 118, 101, 114, 115, 105, 111, 110, 115, 46, 114, 101, 97, 100>>,
      \* shift_management.create_shifts
      <<115, 104, 105, 102, 116, 95, 109, 97, 110, 97, 103, 101, 109, 101, 110, 116, 46, 99, 114, 101, 97, 116, 101, 95, 115, 104, 105, 102, 116, 115>>,
      \* teams.manage
      <<116, 101, 97, 109, 115, 46, 109, 97, 110, 97, 103, 101>>
    >>

(***************************************************************************)
(* new TextDecoder("utf-8") and decoder.decode(event.data, {stream: true}): *)
(* the WHATWG UTF-8 decoder.  With stream: true the decoder is never        *)
(* flushed, so an unfinished multi-byte sequence at the end of a chunk      *)
(* stays in the decoder and produces no text.                               *)
(***************************************************************************)
REPLACEMENT == <<65533>>

BOM == <<65279>>

TextDecoder ==
    [needed |-> 0, seen |-> 0, cp |-> 0, lower |-> 128, upper |-> 191,
     bomSeen |-> FALSE]

\* The decoder's variables back at their initial values after a code point or
\* an error; the BOM flag is the TextDecoder object's and survives.
DecoderReset(d) ==
    [needed |-> 0, seen |-> 0, cp |-> 0, lower |-> 128, upper |-> 191,
     bomSeen |-> d.bomSeen]

\* One byte through the UTF-8 decoder's handler: the next decoder state, the
\* code points emitted, and whether the byte is put back to be read again.
DecodeByte(d, b) ==
    IF d.needed = 0
    THEN IF b <= 127
         THEN [d |-> d, out |-> <<b>>, again |-> FALSE]
         ELSE IF b >= 194 /\ b <= 223
         THEN [d |-> [d EXCEPT !.needed = 1, !.cp = b - 192],
               out |-> <<>>, again |-> FALSE]
         ELSE IF b >= 224 /\ b <= 239
         THEN [d |-> [d EXCEPT !.needed = 2, !.cp = b - 224,
                               !.lower = IF b = 224 THEN 160 ELSE 128,
                               !.upper = IF b = 237 THEN 159 ELSE 191],
               out |-> <<>>, again |-> FALSE]
         ELSE IF b >= 240 /\ b <= 244
         THEN [d |-> [d EXCEPT !.needed = 3, !.cp = b - 240,
                               !.lower = IF b = 240 THEN 144 ELSE 128,
                               !.upper = IF b = 244 THEN 143 ELSE 191],
               out |-> <<>>, again |-> FALSE]
         ELSE [d |-> d, out |-> REPLACEMENT, again |-> FALSE]
    ELSE IF b < d.lower \/ b > d.upper
         THEN [d |-> DecoderReset(d), out |-> REPLACEMENT, again |-> TRUE]
         ELSE IF d.seen + 1 = d.needed
              THEN [d |-> DecoderReset(d),
                    out |-> <<d.cp * 64 + (b - 128)>>, again |-> FALSE]
              ELSE [d |-> [d EXCEPT !.cp = d.cp * 64 + (b - 128),
                                    !.seen = d.seen + 1,
                                    !.lower = 128, !.upper = 191],
                    out |-> <<>>, again |-> FALSE]

\* One byte through the decoder, read again when the handler puts it back.
DecodeOne(d, b) ==
    LET r == DecodeByte(d, b)
    IN  IF r.again
        THEN [d |-> DecodeByte(r.d, b).d, out |-> r.out \o DecodeByte(r.d, b).out]
        ELSE [d |-> r.d, out |-> r.out]

\* The bytes lo..hi through the decoder, in order.
RECURSIVE DecodeRange(_, _, _, _)
DecodeRange(d, bytes, lo, hi) ==
    IF lo > hi THEN [d |-> d, out |-> <<>>]
    ELSE IF lo = hi THEN DecodeOne(d, bytes[lo])
    ELSE LET mid == (lo + hi) \div 2
             left == DecodeRange(d, bytes, lo, mid)
         IN  \* the first half is decoded before the second half starts
             IF left.d.needed = 0 \/ left.d.needed > 0
             THEN LET right == DecodeRange(left.d, bytes, mid + 1, hi)
                  IN  [d |-> right.d, out |-> left.out \o right.out]
             ELSE left

DecodeFrom(d, bytes) == DecodeRange(d, bytes, 1, Len(bytes))

\* decoder.decode(chunk, {stream: true}): the text of the chunk and the
\* decoder afterwards.  ignoreBOM is false: the first code point the decoder
\* ever produces is dropped when it is U+FEFF.
decode(d, chunk) ==
    LET r == DecodeFrom(d, chunk)
    IN  IF r.d.bomSeen \/ r.out = <<>>
        THEN [d |-> r.d, str |-> r.out]
        ELSE [d |-> [r.d EXCEPT !.bomSeen = TRUE],
              str |-> IF <<Head(r.out)>> = BOM THEN Tail(r.out) ELSE r.out]

\* new TextEncoder().encode(text): UTF-8, stateless.
EncodeCodePoint(c) ==
    IF c < 128 THEN <<c>>
    ELSE IF c < 2048 THEN <<192 + (c \div 64), 128 + (c % 64)>>
    ELSE IF c < 65536
         THEN <<224 + (c \div 4096), 128 + ((c \div 64) % 64), 128 + (c % 64)>>
         ELSE <<240 + (c \div 262144), 128 + ((c \div 4096) % 64),
                128 + ((c \div 64) % 64), 128 + (c % 64)>>

RECURSIVE encode(_)
encode(text) ==
    IF text = <<>> THEN <<>>
    ELSE IF Len(text) = 1 THEN EncodeCodePoint(text[1])
    ELSE encode(SubSeq(text, 1, Len(text) \div 2))
             \o encode(SubSeq(text, Len(text) \div 2 + 1, Len(text)))

(***************************************************************************)
(* JSON values as JavaScript holds them after JSON.parse.                   *)
(***************************************************************************)
JNull == [t |-> "null", n |-> 0, s |-> <<>>, k |-> <<>>, a |-> <<>>]

\* The value of a property that is not there.
JUndefined == [t |-> "undefined", n |-> 0, s |-> <<>>, k |-> <<>>, a |-> <<>>]

JBool(b) ==
    [t |-> "bool", n |-> IF b THEN 1 ELSE 0, s |-> <<>>, k |-> <<>>, a |-> <<>>]

JTrue == JBool(TRUE)

JFalse == JBool(FALSE)

JNum(n) == [t |-> "num", n |-> n, s |-> <<>>, k |-> <<>>, a |-> <<>>]

JStr(s) == [t |-> "str", n |-> 0, s |-> s, k |-> <<>>, a |-> <<>>]

JArr(a) == [t |-> "arr", n |-> 0, s |-> <<>>, k |-> <<>>, a |-> a]

JObj(k, a) == [t |-> "obj", n |-> 0, s |-> <<>>, k |-> k, a |-> a]

IsDigit(c) == c >= 48 /\ c <= 57

RECURSIVE LexLess(_, _)
LexLess(x, y) ==
    IF x = <<>> \/ y = <<>> THEN FALSE
    ELSE IF Head(x) # Head(y) THEN Head(x) < Head(y)
    ELSE LexLess(Tail(x), Tail(y))

\* A property name that is an array index (a canonical number below 2^32 - 1):
\* JavaScript lists these properties first, in ascending order.
IsArrayIndex(key) ==
    /\ key # <<>>
    /\ \A i \in 1..Len(key) : IsDigit(key[i])
    /\ Len(key) = 1 \/ key[1] # 48
    /\ \/ Len(key) <= 9
       \/ /\ Len(key) = 10
          /\ ~LexLess(<<52, 50, 57, 52, 57, 54, 55, 50, 57, 52>>, key)

IndexLess(x, y) == Len(x) < Len(y) \/ (Len(x) = Len(y) /\ LexLess(x, y))

\* obj[key]: the value of an own property, undefined when there is none.
Get(obj, key) ==
    IF obj.t = "obj" /\ \E i \in 1..Len(obj.k) : obj.k[i] = key
    THEN obj.a[CHOOSE i \in 1..Len(obj.k) : obj.k[i] = key]
    ELSE JUndefined

\* obj[key] = v on an ordinary object: an existing property keeps its place,
\* a new one goes after the properties that come before it in property order.
Put(obj, key, v) ==
    IF \E i \in 1..Len(obj.k) : obj.k[i] = key
    THEN LET i == CHOOSE j \in 1..Len(obj.k) : obj.k[j] = key
         IN  [obj EXCEPT !.a[i] = v]
    ELSE LET before ==
                 IF IsArrayIndex(key)
                 THEN Cardinality({j \in 1..Len(obj.k) :
                          IsArrayIndex(obj.k[j]) /\ IndexLess(obj.k[j], key)})
                 ELSE Len(obj.k)
         IN  [obj EXCEPT
                !.k = SubSeq(obj.k, 1, before) \o <<key>>
                          \o SubSeq(obj.k, before + 1, Len(obj.k)),
                !.a = SubSeq(obj.a, 1, before) \o <<v>>
                          \o SubSeq(obj.a, before + 1, Len(obj.a))]

(***************************************************************************)
(* JSON.parse(str).  The grammar is ECMA-404's, less two forms the modelled *)
(* bodies never contain: a fraction or exponent after a number's integer    *)
(* part, and the \uXXXX escape.  ok = FALSE is the SyntaxError.             *)
(***************************************************************************)
ParseFail == [ok |-> FALSE, v |-> JNull, i |-> 0]

IsWS(c) == c \in {32, 9, 10, 13}

RECURSIVE SkipWS(_, _)
SkipWS(s, i) == IF i <= Len(s) /\ IsWS(s[i]) THEN SkipWS(s, i + 1) ELSE i

L_true == <<116, 114, 117, 101>>

L_false == <<102, 97, 108, 115, 101>>

L_null == <<110, 117, 108, 108>>

ParseLiteral(s, i, lit, v) ==
    IF i + Len(lit) - 1 <= Len(s) /\ SubSeq(s, i, i + Len(lit) - 1) = lit
    THEN [ok |-> TRUE, v |-> v, i |-> i + Len(lit)]
    ELSE ParseFail

RECURSIVE DigitsEnd(_, _)
DigitsEnd(s, i) == IF i <= Len(s) /\ IsDigit(s[i]) THEN DigitsEnd(s, i + 1) ELSE i

RECURSIVE DigitsValue(_, _, _)
DigitsValue(s, i, e) ==
    IF i >= e THEN 0 ELSE DigitsValue(s, i, e - 1) * 10 + (s[e - 1] - 48)

ParseNumber(s, i) ==
    LET neg == s[i] = 45
        j == IF neg THEN i + 1 ELSE i
    IN  IF j > Len(s) \/ ~IsDigit(s[j]) THEN ParseFail
        ELSE LET e == IF s[j] = 48 THEN j + 1 ELSE DigitsEnd(s, j)
                 n == DigitsValue(s, j, e)
             IN  IF e <= Len(s) /\ s[e] \in {46, 101, 69} THEN ParseFail
                 ELSE [ok |-> TRUE, v |-> JNum(IF neg THEN 0 - n ELSE n), i |-> e]

\* The character a two-character escape stands for, 0 for no such escape.
Unescape(c) ==
    CASE c = 34 -> 34
      [] c = 92 -> 92
      [] c = 47 -> 47
      [] c = 98 -> 8
      [] c = 102 -> 12
      [] c = 110 -> 10
      [] c = 114 -> 13
      [] c = 116 -> 9
      [] OTHER -> 0

\* The string whose opening quote is at i - 1.
RECURSIVE ScanString(_, _, _)
ScanString(s, i, acc) ==
    IF i > Len(s) THEN ParseFail
    ELSE IF s[i] = 34 THEN [ok |-> TRUE, v |-> JStr(acc), i |-> i + 1]
    ELSE IF s[i] < 32 THEN ParseFail
    ELSE IF s[i] = 92
         THEN IF i + 1 > Len(s) \/ Unescape(s[i + 1]) = 0 THEN ParseFail
              ELSE ScanString(s, i + 2, Append(acc, Unescape(s[i + 1])))
         ELSE ScanString(s, i + 1, Append(acc, s[i]))

RECURSIVE ParseValue(_, _)
RECURSIVE ParseElements(_, _, _)
RECURSIVE ParseMembers(_, _, _)

\* The elements of an array from the one that starts at i.
ParseElements(s, i, acc) ==
    LET r == ParseValue(s, i)
    IN  IF ~r.ok THEN ParseFail
        ELSE LET j == SkipWS(s, r.i)
             IN  IF j > Len(s) THEN ParseFail
                 ELSE IF s[j] = 44 THEN ParseElements(s, j + 1, Append(acc, r.v))
                 ELSE IF s[j] = 93
                      THEN [ok |-> TRUE, v |-> JArr(Append(acc, r.v)), i |-> j + 1]
                      ELSE ParseFail

\* The members of an object from the one whose key starts at or after i; a
\* repeated key overwrites the earlier value.
ParseMembers(s, i, obj) ==
    LET j == SkipWS(s, i)
    IN  IF j > Len(s) \/ s[j] # 34 THEN ParseFail
        ELSE LET key == ScanString(s, j + 1, <<>>)
             IN  IF ~key.ok THEN ParseFail
                 ELSE LET c == SkipWS(s, key.i)
                      IN  IF c > Len(s) \/ s[c] # 58 THEN ParseFail
                          ELSE LET r == ParseValue(s, c + 1)
                               IN  IF ~r.ok THEN ParseFail
                                   ELSE LET e == SkipWS(s, r.i)
                                            o == Put(obj, key.v.s, r.v)
                                        IN  IF e > Len(s) THEN ParseFail
                                            ELSE IF s[e] = 44
                                                 THEN ParseMembers(s, e + 1, o)
                                            ELSE IF s[e] = 125
                                                 THEN [ok |-> TRUE, v |-> o, i |-> e + 1]
                                                 ELSE ParseFail

ParseValue(s, i) ==
    LET j == SkipWS(s, i)
    IN  IF j > Len(s) THEN ParseFail
        ELSE IF s[j] = 123
             THEN LET c == SkipWS(s, j + 1)
                  IN  IF c <= Len(s) /\ s[c] = 125
                      THEN [ok |-> TRUE, v |-> JObj(<<>>, <<>>), i |-> c + 1]
                      ELSE ParseMembers(s, j + 1, JObj(<<>>, <<>>))
        ELSE IF s[j] = 91
             THEN LET c == SkipWS(s, j + 1)
                  IN  IF c <= Len(s) /\ s[c] = 93
                      THEN [ok |-> TRUE, v |-> JArr(<<>>), i |-> c + 1]
                      ELSE ParseElements(s, j + 1, <<>>)
        ELSE IF s[j] = 34 THEN ScanString(s, j + 1, <<>>)
        ELSE IF s[j] = 116 THEN ParseLiteral(s, j, L_true, JTrue)
        ELSE IF s[j] = 102 THEN ParseLiteral(s, j, L_false, JFalse)
        ELSE IF s[j] = 110 THEN ParseLiteral(s, j, L_null, JNull)
        ELSE IF s[j] = 45 \/ IsDigit(s[j]) THEN ParseNumber(s, j)
        ELSE ParseFail

\* JSON.parse(str): ok and the value, or not ok (it throws).
JSON_parse(str) ==
    LET r == ParseValue(str, 1)
    IN  IF r.ok /\ SkipWS(str, r.i) > Len(str)
        THEN [ok |-> TRUE, v |-> r.v]
        ELSE [ok |-> FALSE, v |-> JNull]

(***************************************************************************)
(* JSON.stringify(value), no indentation.                                   *)
(***************************************************************************)
RECURSIVE DigitsOf(_)
DigitsOf(n) ==
    IF n < 10 THEN <<48 + n>> ELSE DigitsOf(n \div 10) \o <<48 + (n % 10)>>

HexDigit(h) == IF h < 10 THEN 48 + h ELSE 87 + h

EscapeChar(c) ==
    CASE c = 34 -> <<92, 34>>
      [] c = 92 -> <<92, 92>>
      [] c = 8 -> <<92, 98>>
      [] c = 12 -> <<92, 102>>
      [] c = 10 -> <<92, 110>>
      [] c = 13 -> <<92, 114>>
      [] c = 9 -> <<92, 116>>
      [] c < 32 /\ c \notin {8, 9, 10, 12, 13} ->
             <<92, 117, 48, 48, HexDigit(c \div 16), HexDigit(c % 16)>>
      [] OTHER -> <<c>>

RECURSIVE EscapeString(_)
EscapeString(s) ==
    IF s = <<>> THEN <<>> ELSE EscapeChar(Head(s)) \o EscapeString(Tail(s))

QuoteString(s) == <<34>> \o EscapeString(s) \o <<34>>

RECURSIVE JSON_stringify(_)
RECURSIVE StringifyElements(_, _)
RECURSIVE StringifyMembers(_, _)

StringifyElements(a, i) ==
    IF i > Len(a) THEN <<>>
    ELSE (IF i > 1 THEN <<44>> ELSE <<>>) \o JSON_stringify(a[i])
             \o StringifyElements(a, i + 1)

StringifyMembers(obj, i) ==
    IF i > Len(obj.k) THEN <<>>
    ELSE (IF i > 1 THEN <<44>> ELSE <<>>) \o QuoteString(obj.k[i]) \o <<58>>
             \o JSON_stringify(obj.a[i]) \o StringifyMembers(obj, i + 1)

JSON_stringify(v) ==
    CASE v.t = "null" -> L_null
      [] v.t = "bool" -> IF v.n = 1 THEN L_true ELSE L_false
      [] v.t = "num" ->
             IF v.n < 0 THEN <<45>> \o DigitsOf(0 - v.n) ELSE DigitsOf(v.n)
      [] v.t = "str" -> QuoteString(v.s)
      [] v.t = "arr" -> <<91>> \o StringifyElements(v.a, 1) \o <<93>>
      [] v.t = "obj" -> <<123>> \o StringifyMembers(v, 1) \o <<125>>

(***************************************************************************)
(* The transforms.  Each mutates the parsed response in place; here it      *)
(* returns the response as it is when the function ends, the console.log    *)
(* calls it made, and threw = TRUE when it ended by a TypeError (the value  *)
(* is then the response as mutated up to the throw).                        *)
(***************************************************************************)
\* ToBoolean(value).
Truthy(v) ==
    CASE v.t = "bool" -> v.n = 1
      [] v.t = "num" -> v.n # 0
      [] v.t = "str" -> v.s # <<>>
      [] v.t \in {"arr", "obj"} -> TRUE
      [] OTHER -> FALSE

\* base?.key: undefined when base is null or undefined.
OptGet(base, key) ==
    IF base.t \in {"null", "undefined"} THEN JUndefined ELSE Get(base, key)

\* target.key = true.  On an object the property is set; on an array it is an
\* expando JSON.stringify does not print; on a primitive the assignment of a
\* non-strict script does nothing.
SetTrue(target, key) ==
    IF target.t = "obj" THEN Put(target, key, JTrue) ELSE target

\* MockPermission without the test of the section: the flag is set in a new
\* section when a company's permissions have none.
MockPermissionCreates(company, section, flag) ==
    LET permissions == Get(company, K_permissions)
        target == OptGet(permissions, section)
    IN  IF permissions.t = "obj"
        THEN Put(company, K_permissions,
                 Put(permissions, section,
                     SetTrue(IF target.t = "obj" THEN target ELSE JObj(<<>>, <<>>),
                             flag)))
        ELSE company

\* if (company.permissions?.<section>) company.permissions.<section>.<flag> = true;
MockPermission(company, section, flag) ==
    LET permissions == Get(company, K_permissions)
        target == OptGet(permissions, section)
    IN  IF Truthy(target)
        THEN Put(company, K_permissions,
                 Put(permissions, section, SetTrue(target, flag)))
        ELSE company

\* MockCompany with the payroll statement left out.
MockCompanyAttendanceOnly(company) ==
    MockPermission(company, K_attendance, K_approve)

\* The body of the for-of loop of mock_companies, for a company that is not
\* null.
MockCompany(company) ==
    MockPermission(MockPermission(company, K_attendance, K_approve),
                   K_payroll, K_edit_supplements)

LogLine(msg, url, body) == [msg |-> msg, url |-> url, body |-> body]

\* for (const company of response): reading company.permissions of a null
\* element throws a TypeError and ends the loop.
RECURSIVE CompaniesLoop(_, _)
CompaniesLoop(response, i) ==
    IF i > Len(response.a) THEN [threw |-> FALSE, v |-> response]
    ELSE IF response.a[i].t = "null" THEN [threw |-> TRUE, v |-> response]
    ELSE CompaniesLoop([response EXCEPT !.a[i] = MockCompany(response.a[i])],
                       i + 1)

mock_companies(response) ==
    LET before == << LogLine("Companies original response:", "", FALSE),
                     LogLine("", "", TRUE) >>
        after == << LogLine("Companies mocked response:", "", FALSE),
                    LogLine("", "", TRUE) >>
        r == IF response.t = "arr" /\ Len(response.a) > 0
             THEN CompaniesLoop(response, 1)
             ELSE [threw |-> FALSE, v |-> response]
    IN  [threw |-> r.threw, v |-> r.v,
         log |-> IF r.threw THEN before ELSE before \o after]

\* MockPolicy without the test of MOCK_POLICIES: every policy that is not
\* authorized is authorized.
MockPolicyAnyKey(policy) ==
    IF ~Truthy(Get(policy, K_authorize))
    THEN SetTrue(policy, K_authorize)
    ELSE policy

\* MockPolicy as a toggle: the authorize of a listed policy is negated.
MockPolicyToggles(policy) ==
    LET key == Get(policy, K_policy_key)
    IN  IF key.t = "str" /\ includes(MOCK_POLICIES, key.s)
        THEN IF policy.t = "obj"
             THEN Put(policy, K_authorize,
                      JBool(~Truthy(Get(policy, K_authorize))))
             ELSE policy
        ELSE policy

\* The body of the for-of loop of mock_authorize_policies, for a policy that
\* is not null: the policy afterwards.
MockPolicy(policy) ==
    LET key == Get(policy, K_policy_key)
    IN  IF /\ key.t = "str"
           /\ includes(MOCK_POLICIES, key.s)
           /\ ~Truthy(Get(policy, K_authorize))
        THEN SetTrue(policy, K_authorize)
        ELSE policy

\* The line the loop prints for a policy.
PolicyLogLine(policy) ==
    LogLine(IF MockPolicy(policy) # policy THEN "policy (mocked)" ELSE "policy",
            "", FALSE)

RECURSIVE PoliciesLoop(_, _, _)
PoliciesLoop(response, i, log) ==
    IF i > Len(response.a) THEN [threw |-> FALSE, v |-> response, log |-> log]
    ELSE IF response.a[i].t = "null"
         THEN [threw |-> TRUE, v |-> response, log |-> log]
    ELSE PoliciesLoop([response EXCEPT !.a[i] = MockPolicy(response.a[i])],
                      i + 1, Append(log, PolicyLogLine(response.a[i])))

mock_authorize_policies(response) ==
    IF response.t = "arr" /\ Len(response.a) > 0
    THEN PoliciesLoop(response, 1, <<>>)
    ELSE [threw |-> FALSE, v |-> response, log |-> <<>>]

\* switch (url) of handle_mocking.
handle_mocking(url, response) ==
    CASE url = "https://api.factorialhr.com/companies" ->
             mock_companies(response)
      [] url = "https://api.factorialhr.com/permissions/permissions/authorize_policies" ->
             mock_authorize_policies(response)
      [] OTHER ->
             [threw |-> FALSE, v |-> response,
              log |-> << LogLine("No mocker for: ", url, FALSE),
                         LogLine("", "", TRUE) >>]

(***************************************************************************)
(* filter.ondata: the handler of one data event.  writeThrows is the        *)
(* environment's part: filter.write throws (the StreamFilter is not in a    *)
(* state that takes data); such a stream delivers no further event.         *)
(***************************************************************************)
\* JSON.parse(str) and handle_mocking(url, response) of the try block: whether
\* the text parsed, and what the dispatcher did with the value.
TryBlock(url, parsed) ==
    IF parsed.ok
    THEN [parsed |-> TRUE] @@ handle_mocking(url, parsed.v)
    ELSE [parsed |-> FALSE, threw |-> FALSE, v |-> JNull, log |-> <<>>]

\* WriteAndDisconnect with a catch block that writes the response object
\* whenever there is one, mutated or not, instead of the decoded text.
WriteAndDisconnectResponse(dec, try, writeThrows) ==
    [decoder |-> dec.d,
     str |-> dec.str,
     parsed |-> try.parsed,
     dispatched |-> try.parsed,
     response |-> try.v,
     threw |-> try.threw,
     log |-> try.log,
     writes |-> IF try.parsed /\ ~try.threw
                THEN (IF writeThrows THEN 2 ELSE 1)
                ELSE 1,
     written |-> IF writeThrows THEN <<>>
                 ELSE IF try.parsed
                      THEN encode(JSON_stringify(try.v))
                      ELSE encode(dec.str),
     writeFailed |-> writeThrows,
     escaped |-> writeThrows]

\* The writes of the try block and the catch block, and filter.disconnect().
\* The try block calls filter.write when nothing before it threw; the catch
\* block runs when anything in the try block threw, filter.write included, and
\* calls filter.write itself; when that throws, the exception leaves the
\* handler and filter.disconnect() is not reached.
WriteAndDisconnect(dec, try, writeThrows) ==
    [decoder |-> dec.d,
     str |-> dec.str,
     parsed |-> try.parsed,
     dispatched |-> try.parsed,
     response |-> try.v,
     threw |-> try.threw,
     log |-> try.log,
     writes |-> IF try.parsed /\ ~try.threw
                THEN (IF writeThrows THEN 2 ELSE 1)
                ELSE 1,
     written |-> IF writeThrows THEN <<>>
                 ELSE IF try.parsed /\ ~try.threw
                      THEN encode(JSON_stringify(try.v))
                      ELSE encode(dec.str),
     writeFailed |-> writeThrows,
     escaped |-> writeThrows]

HandleText(url, dec, writeThrows) ==
    WriteAndDisconnect(dec, TryBlock(url, JSON_parse(dec.str)), writeThrows)

ondata(url, decoder, data, writeThrows) ==
    HandleText(url, decode(decoder, data), writeThrows)

(***************************************************************************)
(* State: one StreamSession-to-be per request the listener is called for.   *)
(*   phase      idle (not requested yet), open (response in flight),        *)
(*              stopped (the server's data is all sent and the stream's     *)
(*              end signal delivered), aborted (the connection dropped),    *)
(*              failed (filter.write threw: the stream is unusable)         *)
(*   body, pos  the bytes the server sends and how many it has sent         *)
(*   chunks     data chunks sent so far: 0, 1, or 2 for two or more         *)
(*   filter     none, or the StreamFilter's connected / disconnected        *)
(*   decoder    the session's TextDecoder                                   *)
(*   delivered  the bytes that have reached the page that made the request  *)
(*   decodes .. disconnects, log   how often the pipeline's steps ran       *)
(*   str, parsed, response, hfrom, hto   the last handled data event: its   *)
(*              decoded text, whether JSON.parse took it, the value after   *)
(*              handle_mocking, and the chunk's place in the body           *)
(*   threw, writeFailed, escaped   a transform threw, filter.write threw,   *)
(*              an exception left the handler                                *)
(*   returned   the listener returned its (empty) BlockingResponse          *)
(*   directive  the BlockingResponse it returned                            *)
(* urls holds the script's two global arrays of addresses, as they are now. *)
(***************************************************************************)
VARIABLES sess, urls

vars == <<sess, urls>>

RequestIds == {"r1"}

\* return {}: a BlockingResponse that neither cancels nor redirects.
EmptyBlockingResponse == [cancel |-> FALSE, redirectUrl |-> ""]

IdleSession ==
    [phase |-> "idle", url |-> "", body |-> <<>>, pos |-> 0, chunks |-> 0,
     filter |-> "none", decoder |-> TextDecoder, delivered |-> <<>>,
     decodes |-> 0, parses |-> 0, dispatches |-> 0, writes |-> 0,
     disconnects |-> 0, log |-> <<>>,
     str |-> <<>>, parsed |-> FALSE, response |-> JNull, hfrom |-> 0, hto |-> 0,
     threw |-> FALSE, writeFailed |-> FALSE, escaped |-> FALSE,
     returned |-> FALSE, directive |-> EmptyBlockingResponse]

\* The two arrays as the script's first statements build them.
StartupURLs ==
    [INTERESTING_URLS |-> INTERESTING_URLS,
     NOT_INTERESTING_URLS |-> NOT_INTERESTING_URLS]

Init ==
    /\ sess = [r \in RequestIds |-> IdleSession]
    /\ urls = StartupURLs

\* Intercepts with the wrong list consulted: a filter on every response but
\* the mockable ones.
InterceptsWrongList(url) == ~includes(urls.INTERESTING_URLS, url)

\* Whether mocker opens a response filter for the address.
Intercepts(url) == ~includes(urls.NOT_INTERESTING_URLS, url)

\* mocker keeping a note of what it has seen: the address of every request
\* is pushed onto NOT_INTERESTING_URLS.
mockerPushesURL(r, url, body) ==
    /\ sess[r].phase = "idle"
    /\ sess' = [sess EXCEPT ![r] =
            [@ EXCEPT !.phase = "open", !.url = url, !.body = body,
                      !.filter = IF Intercepts(url) THEN "connected" ELSE "none",
                      !.decoder = TextDecoder,
                      !.returned = TRUE,
                      !.directive = EmptyBlockingResponse]]
    /\ urls' = [urls EXCEPT !.NOT_INTERESTING_URLS = Append(@, url)]

\* mocker answering { cancel: true } for the requests it does not filter.
mockerCancels(r, url, body) ==
    /\ sess[r].phase = "idle"
    /\ sess' = [sess EXCEPT ![r] =
            [@ EXCEPT !.phase = IF Intercepts(url) THEN "open" ELSE "aborted",
                      !.url = url, !.body = body,
                      !.filter = IF Intercepts(url) THEN "connected" ELSE "none",
                      !.decoder = TextDecoder,
                      !.returned = TRUE,
                      !.directive = [cancel |-> ~Intercepts(url),
                                     redirectUrl |-> ""]]]
    /\ UNCHANGED urls

\* mocker(requestDetails): the onBeforeRequest listener, for a request whose
\* response will be body.
mocker(r, url, body) ==
    /\ sess[r].phase = "idle"
    /\ sess' = [sess EXCEPT ![r] =
            [@ EXCEPT !.phase = "open", !.url = url, !.body = body,
                      !.filter = IF Intercepts(url) THEN "connected" ELSE "none",
                      !.decoder = TextDecoder,
                      !.returned = TRUE,
                      !.directive = EmptyBlockingResponse]]
    /\ UNCHANGED urls

\* The session after a data event of n bytes whose handler did h.
AfterData(s, n, h) ==
    [s EXCEPT !.phase = IF h.writeFailed THEN "failed" ELSE "open",
              !.pos = s.pos + n,
              !.chunks = IF s.chunks < 2 THEN s.chunks + 1 ELSE 2,
              !.decoder = h.decoder,
              !.decodes = s.decodes + 1,
              !.parses = s.parses + 1,
              !.dispatches = s.dispatches + (IF h.dispatched THEN 1 ELSE 0),
              !.writes = s.writes + h.writes,
              !.log = s.log \o h.log,
              !.delivered = s.delivered \o h.written,
              !.filter = IF h.escaped THEN "connected" ELSE "disconnected",
              !.disconnects = s.disconnects + (IF h.escaped THEN 0 ELSE 1),
              !.str = h.str,
              !.parsed = h.parsed,
              !.response = h.response,
              !.hfrom = s.pos,
              !.hto = s.pos + n,
              !.threw = s.threw \/ h.threw,
              !.writeFailed = s.writeFailed \/ h.writeFailed,
              !.escaped = s.escaped \/ h.escaped]

\* DataEvent with one TextDecoder for all sessions instead of one per call of
\* mocker: the handler decodes with the state another session's chunk left.
DataEventSharedDecoder(r, n, writeThrows) ==
    /\ sess[r].phase = "open"
    /\ sess[r].filter = "connected"
    /\ n >= 1 /\ sess[r].pos + n <= Len(sess[r].body)
    /\ \E o \in DOMAIN sess :
           /\ (o = r) = (\A q \in DOMAIN sess \ {r} : sess[q].decodes = 0)
           /\ o # r => sess[o].decodes > 0
           /\ sess' = [sess EXCEPT ![r] =
                  AfterData(sess[r], n,
                            ondata(sess[r].url, sess[o].decoder,
                                   SubSeq(sess[r].body, sess[r].pos + 1,
                                          sess[r].pos + n),
                                   writeThrows))]
    /\ UNCHANGED urls

\* DataEvent on a stream that does not stop delivering when its connection
\* has dropped: the handler runs, writes and disconnects after the abort.
DataEventAfterAbort(r, n, writeThrows) ==
    /\ sess[r].phase \in {"open", "aborted"}
    /\ sess[r].filter = "connected"
    /\ n >= 1 /\ sess[r].pos + n <= Len(sess[r].body)
    /\ sess' = [sess EXCEPT ![r] =
           [AfterData(sess[r], n,
                      ondata(sess[r].url, sess[r].decoder,
                             SubSeq(sess[r].body, sess[r].pos + 1, sess[r].pos + n),
                             writeThrows))
               EXCEPT !.phase = sess[r].phase]]
    /\ UNCHANGED urls

\* The next n bytes of the response arrive while the filter is connected:
\* the browser fires the data event and the handler runs to its end (its
\* return, or the exception that leaves it).
DataEvent(r, n, writeThrows) ==
    /\ sess[r].phase = "open"
    /\ sess[r].filter = "connected"
    /\ n >= 1 /\ sess[r].pos + n <= Len(sess[r].body)
    /\ sess' = [sess EXCEPT ![r] =
           AfterData(sess[r], n,
                     ondata(sess[r].url, sess[r].decoder,
                            SubSeq(sess[r].body, sess[r].pos + 1, sess[r].pos + n),
                            writeThrows))]
    /\ UNCHANGED urls

\* PassThrough with a disconnect that does not stop the data events: the
\* bytes that follow the handled chunk are given to the handler again.
PassThroughToHandler(r, n) ==
    /\ sess[r].phase = "open"
    /\ sess[r].filter # "connected"
    /\ n >= 1 /\ sess[r].pos + n <= Len(sess[r].body)
    /\ sess' = [sess EXCEPT ![r] =
           IF sess[r].filter = "none"
           THEN [@ EXCEPT !.pos = sess[r].pos + n,
                          !.chunks = IF sess[r].chunks < 2
                                     THEN sess[r].chunks + 1 ELSE 2,
                          !.delivered =
                              sess[r].delivered
                                  \o SubSeq(sess[r].body, sess[r].pos + 1,
                                            sess[r].pos + n)]
           ELSE AfterData(sess[r], n,
                          ondata(sess[r].url, sess[r].decoder,
                                 SubSeq(sess[r].body, sess[r].pos + 1,
                                        sess[r].pos + n),
                                 FALSE))]
    /\ UNCHANGED urls

\* The next n bytes arrive with no filter on the response, or with the filter
\* disconnected: the browser hands them to the page as they are.
PassThrough(r, n) ==
    LET s == sess[r]
    IN  /\ s.phase = "open"
        /\ s.filter # "connected"
        /\ n >= 1 /\ s.pos + n <= Len(s.body)
        /\ sess' = [sess EXCEPT ![r] =
               [@ EXCEPT !.pos = s.pos + n,
                         !.chunks = IF s.chunks < 2 THEN s.chunks + 1 ELSE 2,
                         !.delivered =
                             s.delivered \o SubSeq(s.body, s.pos + 1, s.pos + n)]]
        /\ UNCHANGED urls

\* The server has sent everything: the stream's end signal (onstop).  The
\* script sets no onstop handler, so nothing of the pipeline runs.
StreamStop(r) ==
    /\ sess[r].phase = "open"
    /\ sess[r].pos = Len(sess[r].body)
    /\ sess' = [sess EXCEPT ![r].phase = "stopped"]
    /\ UNCHANGED urls

\* The connection drops before the response is complete (onerror).  The
\* script sets no onerror handler either.
StreamAbort(r) ==
    /\ sess[r].phase = "open"
    /\ sess[r].pos < Len(sess[r].body)
    /\ sess' = [sess EXCEPT ![r].phase = "aborted"]
    /\ UNCHANGED urls

(***************************************************************************)
(* Response bodies the server sends, as bytes.                              *)
(***************************************************************************)
\* [{"permissions":{"attendance":{"approve":false}}}]
B_companies ==
    <<91, 123, 34, 112, 101, 114, 109, 105, 115, 115, 105, 111, 110, 115,
      34, 58, 123, 34, 97, 116, 116, 101, 110, 100, 97, 110, 99, 101, 34,
      58, 123, 34, 97, 112, 112, 114, 111, 118, 101, 34, 58, 102, 97, 108,
      115, 101, 125, 125, 125, 93>>

\* [{"permissions":{}}]
B_no_targets ==
    <<91, 123, 34, 112, 101, 114, 109, 105, 115, 115, 105, 111, 110, 115,
      34, 58, 123, 125, 125, 93>>

\* {"x":1}
B_x1 ==
    <<123, 34, 120, 34, 58, 49, 125>>

\* {"x": 1}
B_x1_spaced ==
    <<123, 34, 120, 34, 58, 32, 49, 125>>

\* {"b":1,"1":2}
B_reordered ==
    <<123, 34, 98, 34, 58, 49, 44, 34, 49, 34, 58, 50, 125>>

\* [null]
B_null_element ==
    <<91, 110, 117, 108, 108, 93>>

\* [{"permissions":{"attendance":{}}},null]
B_mutate_then_null ==
    <<91, 123, 34, 112, 101, 114, 109, 105, 115, 115, 105, 111, 110, 115,
      34, 58, 123, 34, 97, 116, 116, 101, 110, 100, 97, 110, 99, 101, 34,
      58, 123, 125, 125, 125, 44, 110, 117, 108, 108, 93>>

\* [{"policy_key":"goals.read"}]
B_policy ==
    <<91, 123, 34, 112, 111, 108, 105, 99, 121, 95, 107, 101, 121, 34, 58,
      34, 103, 111, 97, 108, 115, 46, 114, 101, 97, 100, 34, 125, 93>>

\* ["é"]
B_accent ==
    <<91, 34, 195, 169, 34, 93>>

\* hé   (not JSON)
B_text ==
    <<104, 195, 169>>

\* [1 ]x   (not JSON, though its first four bytes are)
B_json_then_text ==
    <<91, 49, 32, 93, 120>>

\* ﻿1   (a byte order mark, then 1)
B_bom ==
    <<239, 187, 191, 49>>

\* "\xff"   (a quoted byte that is not UTF-8)
B_bad_utf8 ==
    <<34, 255, 34>>

\* An empty response body.
B_empty == <<>>

StreamBodies ==
    {B_companies,
     B_no_targets,
     B_x1,
     B_x1_spaced,
     B_reordered,
     B_null_element,
     B_mutate_then_null,
     B_policy,
     B_accent,
     B_text,
     B_json_then_text,
     B_bom,
     B_bad_utf8,
     B_empty}

\* The addresses a request of the listener's pattern may have: both lists,
\* and one address in neither.
RequestURLs ==
    {INTERESTING_URLS[i] : i \in 1..Len(INTERESTING_URLS)}
        \cup {NOT_INTERESTING_URLS[i] : i \in 1..Len(NOT_INTERESTING_URLS)}
        \cup {UNKNOWN_URL}

Remaining(r) == Len(sess[r].body) - sess[r].pos

Next ==
    \E r \in RequestIds :
        \/ \E url \in RequestURLs, body \in StreamBodies : mocker(r, url, body)
        \/ \E n \in 1..Remaining(r), writeThrows \in BOOLEAN :
               DataEvent(r, n, writeThrows)
        \/ \E n \in 1..Remaining(r) : PassThrough(r, n)
        \/ StreamStop(r)
        \/ StreamAbort(r)

Spec == Init /\ [][Next]_vars

(***************************************************************************)
(* Definitions the properties below are stated with.                        *)
(***************************************************************************)
Ignored(url) == includes(NOT_INTERESTING_URLS, url)

Mockable(url) == includes(INTERESTING_URLS, url)

\* The session's handler has handled a data event.
Handled(s) == s.decodes > 0

\* The bytes the handler wrote: what was delivered, less the bytes the browser
\* passed on by itself after the handled chunk.
Written(s) == SubSeq(s.delivered, 1, Len(s.delivered) - (s.pos - s.hto))

\* The chunk of the handled data event.
HandledChunk(s) == SubSeq(s.body, s.hfrom + 1, s.hto)

\* A complete body as text, read by a fresh decoder that is flushed at the end.
BodyText(body) == DecodeFrom(TextDecoder, body)

\* The body is well-formed UTF-8 and JSON.parse takes its text.
ValidJSON(body) ==
    /\ BodyText(body).d.needed = 0
    /\ encode(BodyText(body).out) = body
    /\ JSON_parse(BodyText(body).out).ok

\* What the pipeline delivers for a body that arrives as one chunk.
SingleChunkDelivery(url, body) == ondata(url, TextDecoder, body, FALSE).written

(***************************************************************************)
(* C1.  For a request whose URL is in NOT_INTERESTING_URLS no response      *)
(* filter is opened and no decode, parse, dispatch, log, write or           *)
(* disconnect ever happens, however the response is chunked; the bytes the  *)
(* page has received are exactly the bytes the server has sent.             *)
(***************************************************************************)
C1_IgnoredIsUntouched ==
    \A r \in DOMAIN sess :
        (sess[r].phase # "idle" /\ Ignored(sess[r].url)) =>
            /\ sess[r].filter = "none"
            /\ sess[r].decodes = 0 /\ sess[r].parses = 0
            /\ sess[r].dispatches = 0 /\ sess[r].log = <<>>
            /\ sess[r].writes = 0 /\ sess[r].disconnects = 0
            /\ sess[r].delivered = SubSeq(sess[r].body, 1, sess[r].pos)

\* An ignored request whose response, a body the /companies transform would
\* rewrite, has arrived whole in two or more chunks.
C1_Witness ==
    \E r \in DOMAIN sess :
        /\ Ignored(sess[r].url)
        /\ sess[r].phase = "stopped"
        /\ sess[r].chunks = 2
        /\ sess[r].body = B_companies
        /\ sess[r].delivered = B_companies

(***************************************************************************)
(* C2.  As claimed: for a request that is not ignored and a body that is    *)
(* not valid JSON, the bytes delivered to the page are the bytes the server *)
(* sent, whatever the chunking.                                             *)
(***************************************************************************)
C2_NonJsonIsByteIdentical ==
    \A r \in DOMAIN sess :
        (/\ sess[r].phase = "stopped"
         /\ ~Ignored(sess[r].url)
         /\ ~ValidJSON(sess[r].body)) =>
            sess[r].delivered = sess[r].body

(***************************************************************************)
(* C3.  As claimed: for a mockable URL and a body that is valid JSON, what  *)
(* is delivered does not depend on how the body is split into chunks: it is *)
(* what the single-chunk delivery of the same body delivers.                *)
(***************************************************************************)
C3_ChunkingIsInvisible ==
    \A r \in DOMAIN sess :
        (/\ sess[r].phase = "stopped"
         /\ Mockable(sess[r].url)
         /\ ValidJSON(sess[r].body)) =>
            sess[r].delivered = SingleChunkDelivery(sess[r].url, sess[r].body)

(***************************************************************************)
(* C4.  As claimed: in a session that is not ignored nothing is parsed and  *)
(* nothing is written before the stream's end signal, and a connection that *)
(* drops before the last chunk leaves no write at all.                      *)
(***************************************************************************)
C4_NothingBeforeEndSignal ==
    \A r \in DOMAIN sess :
        /\ (sess[r].parses > 0 \/ sess[r].writes > 0) => sess[r].phase = "stopped"
        /\ sess[r].phase = "aborted" => sess[r].writes = 0

(***************************************************************************)
(* C5.  As claimed: on every path of the handler, a throwing filter.write   *)
(* included, a session calls filter.write at most once and                  *)
(* filter.disconnect at most once, and a session that has ended (its filter *)
(* disconnected) made its one write before.                                 *)
(***************************************************************************)
C5_OneWriteOneDisconnect ==
    \A r \in DOMAIN sess :
        /\ sess[r].writes <= 1
        /\ sess[r].disconnects <= 1
        /\ sess[r].filter = "disconnected" => sess[r].writes = 1

(***************************************************************************)
(* C6.  As claimed: once the stream of a request that is not ignored has    *)
(* signalled its end, and every event of it has been handled, the session's *)
(* filter has been disconnected, also when the body is empty.               *)
(***************************************************************************)
C6_EndedStreamIsTerminated ==
    \A r \in DOMAIN sess :
        (sess[r].phase = "stopped" /\ ~Ignored(sess[r].url)) =>
            sess[r].filter = "disconnected"

(***************************************************************************)
(* C7.  When a transform throws, the handler calls filter.write exactly     *)
(* once, with the decoded text of the chunk and so with none of the         *)
(* mutations made before the throw; no exception leaves the handler unless  *)
(* that write itself throws, and when it does not the write is delivered    *)
(* and the filter disconnected.                                             *)
(***************************************************************************)
C7_TransformThrowStillDelivers ==
    \A r \in DOMAIN sess :
        sess[r].threw =>
            /\ sess[r].writes = 1
            /\ sess[r].escaped => sess[r].writeFailed
            /\ ~sess[r].writeFailed =>
                   /\ Written(sess[r]) = encode(sess[r].str)
                   /\ JSON_parse(decode(TextDecoder, Written(sess[r])).str).v
                          = JSON_parse(sess[r].str).v
                   /\ sess[r].filter = "disconnected"
                   /\ sess[r].disconnects = 1

\* The transform mutated the first company and threw on the second, a null;
\* the response has arrived whole.
C7_Witness ==
    \E r \in DOMAIN sess :
        /\ sess[r].threw
        /\ sess[r].phase = "stopped"
        /\ sess[r].url = URL_COMPANIES
        /\ sess[r].response # JSON_parse(sess[r].str).v
        /\ sess[r].delivered = B_mutate_then_null

(***************************************************************************)
(* The transforms on whole bodies: parsed values of a family of shapes,     *)
(* each serialised by the server and received as one chunk.                 *)
(***************************************************************************)
\* The most elements an array of the family has.
MaxRecords == 2

\* {"key": value}
Member(key, value) == JObj(<<key>>, <<value>>)

\* {"permissions": permissions}
Company(permissions) == Member(K_permissions, permissions)

\* "goals.read" and "teams.manage" (both in MOCK_POLICIES), "goals.write"
\* (not in it).
S_goals_read == <<103, 111, 97, 108, 115, 46, 114, 101, 97, 100>>

S_teams_manage == <<116, 101, 97, 109, 115, 46, 109, 97, 110, 97, 103, 101>>

S_goals_write == <<103, 111, 97, 108, 115, 46, 119, 114, 105, 116, 101>>

\* "id", "read"
K_id == <<105, 100>>

K_read == <<114, 101, 97, 100>>

\* {"policy_key": key, "authorize": authorize}
Policy(key, authorize) ==
    JObj(<<K_policy_key, K_authorize>>, <<JStr(key), authorize>>)

\* Company records: the targeted sections present (as records) or absent.
CompanyShapes ==
    { Company(Member(K_attendance, Member(K_approve, JFalse))),
      Company(JObj(<<>>, <<>>)),
      Company(JObj(<<K_attendance, K_payroll>>,
                   << JObj(<<K_read, K_approve>>, <<JFalse, JTrue>>),
                      Member(K_edit_supplements, JFalse) >>)),
      Company(Member(K_payroll, JObj(<<>>, <<>>))),
      Member(K_id, JNum(7)) }

\* Policy records: listed and unlisted keys, authorize false, true, truthy
\* without being true, or absent.
PolicyShapes ==
    { Policy(S_goals_read, JFalse),
      Policy(S_goals_read, JTrue),
      Policy(S_goals_read, JNum(1)),
      Policy(S_goals_write, JFalse),
      Member(K_policy_key, JStr(S_teams_manage)) }

\* Elements that are not records, and records whose nested fields are not
\* records.
OddShapes ==
    { JNull,
      JNum(7),
      JStr(K_id),
      Company(JNull),
      Company(Member(K_attendance, JTrue)) }

ElementShapes == CompanyShapes \cup PolicyShapes \cup OddShapes

RECURSIVE Arrays(_)
Arrays(n) ==
    IF n = 0 THEN {<<>>}
    ELSE Arrays(n - 1)
             \cup {Append(a, e) : a \in {b \in Arrays(n - 1) : Len(b) = n - 1},
                                  e \in ElementShapes}

\* The parsed bodies of the family: the arrays of up to MaxRecords elements,
\* and three values that are not arrays.
FamilyValues ==
    {JArr(a) : a \in Arrays(MaxRecords)}
        \cup {JNull, JNum(7), Member(K_id, JNum(7))}

\* The server's serialisation of a value: compact JSON in UTF-8.
Serialize(v) == encode(JSON_stringify(v))

FamilyBodies == {Serialize(v) : v \in FamilyValues}

FamilyURLs == {URL_COMPANIES, URL_AUTHORIZE_POLICIES, UNKNOWN_URL}

NextTransform ==
    \E r \in RequestIds :
        \/ \E url \in FamilyURLs, body \in FamilyBodies : mocker(r, url, body)
        \/ DataEvent(r, Remaining(r), FALSE)
        \/ StreamStop(r)

SpecTransform == Init /\ [][NextTransform]_vars

(***************************************************************************)
(* Definitions for the properties of /companies bodies.                     *)
(***************************************************************************)
\* An array whose elements are all records.
IsRecordArray(v) == v.t = "arr" /\ \A i \in 1..Len(v.a) : v.a[i].t = "obj"

\* record.permissions.<section>, undefined when either is missing.
Section(record, section) == Get(Get(record, K_permissions), section)

\* The section is present: a record of its own.
HasSection(record, section) == Section(record, section).t = "obj"

\* The object without the property key.
Without(obj, key) ==
    IF \E i \in 1..Len(obj.k) : obj.k[i] = key
    THEN LET i == CHOOSE j \in 1..Len(obj.k) : obj.k[j] = key
         IN  [obj EXCEPT !.k = SubSeq(obj.k, 1, i - 1)
                                   \o SubSeq(obj.k, i + 1, Len(obj.k)),
                         !.a = SubSeq(obj.a, 1, i - 1)
                                   \o SubSeq(obj.a, i + 1, Len(obj.a))]
    ELSE obj

\* The record with the flag of a present section taken out.
StripFlag(record, section, flag) ==
    IF HasSection(record, section)
    THEN Put(record, K_permissions,
             Put(Get(record, K_permissions), section,
                 Without(Section(record, section), flag)))
    ELSE record

\* An array of records with the two targeted fields taken out of each.
StripTargets(v) ==
    JArr([i \in 1..Len(v.a) |->
            StripFlag(StripFlag(v.a[i], K_attendance, K_approve),
                      K_payroll, K_edit_supplements)])

\* The record has no permissions, or permissions that are a record with
\* neither attendance nor payroll.
LacksTargets(record) ==
    /\ record.t = "obj"
    /\ Get(record, K_permissions).t \in {"undefined", "obj"}
    /\ Section(record, K_attendance).t = "undefined"
    /\ Section(record, K_payroll).t = "undefined"

\* The value JSON.parse gets from the handled chunk, and the value a second
\* JSON.parse gets from what the handler wrote.
ParsedInput(s) == JSON_parse(s.str).v

ParsedOutput(s) == JSON_parse(decode(TextDecoder, Written(s)).str)

(***************************************************************************)
(* C8.  For /companies and a body that is an array of records: in what is   *)
(* delivered, parsed again, every record whose permissions.attendance is    *)
(* present (a record) has approve = true there, every record whose          *)
(* permissions.payroll is present has edit_supplements = true there, and    *)
(* with these two fields left out the output equals the input.              *)
(***************************************************************************)
C8_CompaniesOverridesOnlyTargets ==
    \A r \in DOMAIN sess :
        (/\ Handled(sess[r])
         /\ sess[r].url = URL_COMPANIES
         /\ sess[r].parsed
         /\ ~sess[r].writeFailed
         /\ IsRecordArray(ParsedInput(sess[r]))) =>
            /\ ParsedOutput(sess[r]).ok
            /\ IsRecordArray(ParsedOutput(sess[r]).v)
            /\ Len(ParsedOutput(sess[r]).v.a) = Len(ParsedInput(sess[r]).a)
            /\ \A i \in 1..Len(ParsedInput(sess[r]).a) :
                   /\ HasSection(ParsedInput(sess[r]).a[i], K_attendance) =>
                          Get(Section(ParsedOutput(sess[r]).v.a[i], K_attendance),
                              K_approve) = JTrue
                   /\ HasSection(ParsedInput(sess[r]).a[i], K_payroll) =>
                          Get(Section(ParsedOutput(sess[r]).v.a[i], K_payroll),
                              K_edit_supplements) = JTrue
            /\ StripTargets(ParsedOutput(sess[r]).v)
                   = StripTargets(ParsedInput(sess[r]))

\* The scenario: [{"permissions":{"attendance":{"approve":false}}}] is
\* delivered as [{"permissions":{"attendance":{"approve":true}}}].
C8_Witness ==
    \E r \in DOMAIN sess :
        /\ sess[r].phase = "stopped"
        /\ sess[r].url = URL_COMPANIES
        /\ sess[r].body = B_companies
        /\ sess[r].delivered
               = Serialize(JArr(<<Company(Member(K_attendance,
                                                 Member(K_approve, JTrue)))>>))

(***************************************************************************)
(* C9.  For /companies and a body, in compact form, that is an array of     *)
(* records none of which has permissions.attendance or permissions.payroll: *)
(* the transform does not throw, adds and changes nothing, and what is      *)
(* written is the chunk that was received.                                  *)
(***************************************************************************)
C9_NoTargetsNoChange ==
    \A r \in DOMAIN sess :
        (/\ Handled(sess[r])
         /\ sess[r].url = URL_COMPANIES
         /\ sess[r].parsed
         /\ ~sess[r].writeFailed
         /\ IsRecordArray(ParsedInput(sess[r]))
         /\ \A i \in 1..Len(ParsedInput(sess[r]).a) :
                LacksTargets(ParsedInput(sess[r]).a[i])
         /\ HandledChunk(sess[r]) = Serialize(ParsedInput(sess[r]))) =>
            /\ ~sess[r].threw
            /\ sess[r].response = ParsedInput(sess[r])
            /\ Written(sess[r]) = HandledChunk(sess[r])

\* The scenario: [{"permissions":{}}] is delivered as it came.
C9_Witness ==
    \E r \in DOMAIN sess :
        /\ sess[r].phase = "stopped"
        /\ sess[r].url = URL_COMPANIES
        /\ sess[r].body = B_no_targets
        /\ sess[r].parsed
        /\ sess[r].delivered = B_no_targets

(***************************************************************************)
(* C10.  As claimed: no transform ever throws, whatever the shape of the    *)
(* parsed value.                                                            *)
(***************************************************************************)
C10_TransformsNeverRaise == \A r \in DOMAIN sess : ~sess[r].threw

(***************************************************************************)
(* C11.  Idempotence.  For the two addresses with a transform and every     *)
(* parsed body: the transform applied to its own result gives that result   *)
(* again, and what the handler wrote, sent through the handler once more    *)
(* for the same address, is written unchanged.                              *)
(***************************************************************************)
C11_TransformsAreIdempotent ==
    \A r \in DOMAIN sess :
        (/\ Handled(sess[r])
         /\ sess[r].url \in {URL_COMPANIES, URL_AUTHORIZE_POLICIES}
         /\ sess[r].parsed
         /\ ~sess[r].writeFailed) =>
            /\ handle_mocking(sess[r].url, sess[r].response).v = sess[r].response
            /\ handle_mocking(sess[r].url, sess[r].response).threw = sess[r].threw
            /\ ondata(sess[r].url, TextDecoder, Written(sess[r]), FALSE).written
                   = Written(sess[r])

\* Both transforms have changed a body: a company's approve and a listed
\* policy's authorize went from false to true.
C11_Witness ==
    \E r \in DOMAIN sess :
        /\ Handled(sess[r])
        /\ sess[r].parsed
        /\ ~sess[r].threw
        /\ sess[r].response # ParsedInput(sess[r])
        /\ \/ /\ sess[r].url = URL_COMPANIES
              /\ sess[r].body = B_companies
           \/ /\ sess[r].url = URL_AUTHORIZE_POLICIES
              /\ sess[r].body = Serialize(JArr(<<Policy(S_goals_read, JFalse)>>))

(***************************************************************************)
(* C12.  As claimed: for an address that is not ignored and has no          *)
(* transform (unknown, or mockable without a case in handle_mocking) and a  *)
(* body that is valid JSON, when the response has ended the delivered body  *)
(* parses to the value the body parses to, is the body itself when the body *)
(* is compact, and exactly one diagnostic record was emitted, holding both  *)
(* the address and the body.                                                *)
(***************************************************************************)
C12_NoTransformOneRecord ==
    \A r \in DOMAIN sess :
        (/\ sess[r].phase = "stopped"
         /\ ~Ignored(sess[r].url)
         /\ sess[r].url \notin {URL_COMPANIES, URL_AUTHORIZE_POLICIES}
         /\ ValidJSON(sess[r].body)) =>
            /\ JSON_parse(BodyText(sess[r].delivered).out)
                   = JSON_parse(BodyText(sess[r].body).out)
            /\ sess[r].body = Serialize(JSON_parse(BodyText(sess[r].body).out).v)
                   => sess[r].delivered = sess[r].body
            /\ Len(sess[r].log) = 1
            /\ sess[r].log[1].url = sess[r].url
            /\ sess[r].log[1].body

(***************************************************************************)
(* Several requests in flight.  Every call of mocker makes its own filter,  *)
(* decoder and encoder (lines 115-117), and the handler it installs closes  *)
(* over them.  The events of the requests interleave in any order; a data   *)
(* event brings two bytes or all that is left, and what the browser passes  *)
(* on by itself comes in one piece.                                         *)
(***************************************************************************)
MaxInFlight == 2

InFlightIds == 1..MaxInFlight

InitConcurrent ==
    /\ sess = [r \in InFlightIds |-> IdleSession]
    /\ urls = StartupURLs

ConcurrentURLs ==
    {URL_COMPANIES, URL_AUTHORIZE_POLICIES, NOT_INTERESTING_URLS[1]}

ConcurrentBodies == {B_text, B_companies, B_policy}

ChunkSizes(r) == {n \in {2, Remaining(r)} : n >= 1 /\ n <= Remaining(r)}

NextConcurrent ==
    \E r \in InFlightIds :
        \/ \E url \in ConcurrentURLs, body \in ConcurrentBodies :
               mocker(r, url, body)
        \/ \E n \in ChunkSizes(r) : DataEvent(r, n, FALSE)
        \/ PassThrough(r, Remaining(r))
        \/ StreamStop(r)
        \/ StreamAbort(r)

SpecConcurrent == InitConcurrent /\ [][NextConcurrent]_vars

\* What the handler does for a request that is alone, its first chunk and
\* the failing of its write being the session's: the decoder is fresh.
Alone(s) ==
    ondata(s.url, TextDecoder, SubSeq(s.body, 1, s.hto), s.writeFailed)

\* The session is where the request alone would be, h being what the handler
\* does for it alone: with no filter the bytes are delivered as sent; with a
\* filter nothing is delivered before the first data event, and after it what
\* the handler wrote and then the rest as sent.
SameAsAlone(s, h) ==
    IF includes(NOT_INTERESTING_URLS, s.url)
    THEN /\ s.delivered = SubSeq(s.body, 1, s.pos)
         /\ s.decoder = TextDecoder
         /\ s.response = JNull
    ELSE IF s.decodes = 0
    THEN /\ s.delivered = <<>>
         /\ s.decoder = TextDecoder
         /\ s.response = JNull
    ELSE /\ s.delivered = h.written \o SubSeq(s.body, s.hto + 1, s.pos)
         /\ s.decoder = h.decoder
         /\ s.response = h.response

(***************************************************************************)
(* C13.  With several requests in flight and their events interleaved in    *)
(* any order, each request is delivered the bytes it would be delivered     *)
(* alone, its decoder and parsed value are those it would have alone, and   *)
(* the two arrays of addresses are as they were at startup.                 *)
(***************************************************************************)
C13_SessionsAreIndependent ==
    /\ urls = StartupURLs
    /\ \A r \in DOMAIN sess :
           sess[r].phase # "idle" =>
               SameAsAlone(sess[r], Alone(sess[r]))

\* Two responses under way at once: one session's decoder holds the first
\* byte of a character cut by the chunk's end, while another session has
\* parsed and rewritten a /companies body.
C13_Witness ==
    \E p, q \in DOMAIN sess :
        /\ p # q
        /\ sess[p].phase = "open" /\ sess[q].phase = "open"
        /\ sess[p].decodes = 1 /\ sess[p].decoder.needed > 0
        /\ sess[p].pos < Len(sess[p].body)
        /\ sess[q].decodes = 1 /\ sess[q].parsed
        /\ sess[q].response # ParsedInput(sess[q])
        /\ sess[q].delivered # sess[q].body

(***************************************************************************)
(* C14.  Once the connection of a request has dropped with the response     *)
(* incomplete, no step changes anything of its session: no write, no        *)
(* disconnect, no decode, nothing delivered, and no exception, whether the  *)
(* drop came before the first chunk or between chunks.                      *)
(***************************************************************************)
C14_AbortIsNoOp ==
    [][\A r \in DOMAIN sess :
           sess[r].phase = "aborted" => sess'[r] = sess[r]]_vars

\* One connection dropped before its first chunk, its filter still connected
\* and nothing written, and another dropped between chunks, after the handler
\* had written and disconnected.
C14_Witness ==
    \E p, q \in DOMAIN sess :
        /\ sess[p].phase = "aborted" /\ sess[q].phase = "aborted"
        /\ ~Ignored(sess[p].url) /\ ~Ignored(sess[q].url)
        /\ sess[p].pos = 0 /\ sess[p].filter = "connected"
        /\ sess[p].writes = 0 /\ sess[p].disconnects = 0
        /\ sess[q].pos > 0 /\ sess[q].pos < Len(sess[q].body)
        /\ sess[q].writes = 1 /\ sess[q].disconnects = 1
        /\ ~sess[p].escaped /\ ~sess[q].escaped

\* handle_mocking found no case for the session's address: it printed its
\* "No mocker for" line.
NoMocker(s) == \E i \in 1..Len(s.log) : s.log[i].msg = "No mocker for: "

(***************************************************************************)
(* C15.  As claimed: handle_mocking has a transform for every address of    *)
(* INTERESTING_URLS and for no other address: whenever a body has been      *)
(* parsed and dispatched, a transform took it exactly when the address is   *)
(* in INTERESTING_URLS.                                                     *)
(***************************************************************************)
C15_EveryMockableHasATransform ==
    \A r \in DOMAIN sess :
        (Handled(sess[r]) /\ sess[r].dispatches > 0) =>
            (Mockable(sess[r].url) <=> ~NoMocker(sess[r]))

(***************************************************************************)
(* C16.  In every reachable state the two arrays of addresses are what they *)
(* were at startup, no address is in both, and mocker classifies every      *)
(* address as it did at startup.                                            *)
(***************************************************************************)
C16_ListsDisjointAndStatic ==
    /\ urls = StartupURLs
    /\ \A i \in 1..Len(urls.INTERESTING_URLS) :
           ~includes(urls.NOT_INTERESTING_URLS, urls.INTERESTING_URLS[i])
    /\ \A url \in RequestURLs :
           /\ Intercepts(url) = ~Ignored(url)
           /\ includes(urls.INTERESTING_URLS, url) = Mockable(url)

\* Every operation has run: a /companies request started, its chunk was
\* handled, dispatched and rewritten by the transform, the rest was passed on
\* and the stream ended.
C16_Witness ==
    \E r \in DOMAIN sess :
        /\ sess[r].phase = "stopped"
        /\ sess[r].url = URL_COMPANIES
        /\ sess[r].dispatches = 1
        /\ sess[r].response # ParsedInput(sess[r])
        /\ sess[r].writes = 1 /\ sess[r].disconnects = 1
        /\ urls = StartupURLs

(***************************************************************************)
(* C17.  For every request, ignored or not: mocker has returned, and        *)
(* returned the empty BlockingResponse (no cancel, no redirect), before     *)
(* anything of the response arrives; when it returns nothing has been       *)
(* decoded, parsed, logged, written or delivered, so all work on the        *)
(* response is done by later events; and the request is not dropped: its    *)
(* response can still arrive.                                               *)
(***************************************************************************)
C17_ListenerReturnsEmptyFirst ==
    \A r \in DOMAIN sess :
        /\ sess[r].phase # "idle" =>
               /\ sess[r].returned
               /\ sess[r].directive = EmptyBlockingResponse
        /\ ~sess[r].returned =>
               /\ sess[r].pos = 0 /\ sess[r].chunks = 0
               /\ sess[r].delivered = <<>>
        /\ (sess[r].returned /\ sess[r].chunks = 0) =>
               /\ sess[r].phase \in {"open", "stopped", "aborted"}
               /\ sess[r].phase = "aborted" => sess[r].pos < Len(sess[r].body)
               /\ sess[r].decodes = 0 /\ sess[r].parses = 0
               /\ sess[r].dispatches = 0 /\ sess[r].log = <<>>
               /\ sess[r].writes = 0 /\ sess[r].disconnects = 0
               /\ sess[r].delivered = <<>>

\* mocker has returned for an ignored request and its whole response has then
\* arrived.
C17_Witness ==
    \E r \in DOMAIN sess :
        /\ sess[r].returned
        /\ Ignored(sess[r].url)
        /\ sess[r].phase = "stopped"
        /\ sess[r].chunks > 0
        /\ sess[r].delivered = sess[r].body
        /\ sess[r].body # <<>>

\* The policy's policy_key is a string of MOCK_POLICIES.
Listed(policy) ==
    /\ Get(policy, K_policy_key).t = "str"
    /\ includes(MOCK_POLICIES, Get(policy, K_policy_key).s)

(***************************************************************************)
(* C18.  For /permissions/permissions/authorize_policies and a body that is *)
(* an array of records: in what is delivered, parsed again, every record    *)
(* whose policy_key is in MOCK_POLICIES has a truthy authorize, which is    *)
(* true when the record's authorize was falsy or missing and is the         *)
(* record's own when that was truthy, with all its other fields as they     *)
(* were; and every other record is as it was.                               *)
(***************************************************************************)
C18_ListedPoliciesAuthorized ==
    \A r \in DOMAIN sess :
        (/\ Handled(sess[r])
         /\ sess[r].url = URL_AUTHORIZE_POLICIES
         /\ sess[r].parsed
         /\ ~sess[r].writeFailed
         /\ IsRecordArray(ParsedInput(sess[r]))) =>
            /\ ~sess[r].threw
            /\ ParsedOutput(sess[r]).ok
            /\ IsRecordArray(ParsedOutput(sess[r]).v)
            /\ Len(ParsedOutput(sess[r]).v.a) = Len(ParsedInput(sess[r]).a)
            /\ \A i \in 1..Len(ParsedInput(sess[r]).a) :
                   IF Listed(ParsedInput(sess[r]).a[i])
                   THEN /\ Truthy(Get(ParsedOutput(sess[r]).v.a[i], K_authorize))
                        /\ Get(ParsedOutput(sess[r]).v.a[i], K_authorize)
                               = IF Truthy(Get(ParsedInput(sess[r]).a[i],
                                               K_authorize))
                                 THEN Get(ParsedInput(sess[r]).a[i], K_authorize)
                                 ELSE JTrue
                        /\ Without(ParsedOutput(sess[r]).v.a[i], K_authorize)
                               = Without(ParsedInput(sess[r]).a[i], K_authorize)
                   ELSE ParsedOutput(sess[r]).v.a[i] = ParsedInput(sess[r]).a[i]

\* [{"policy_key":"teams.manage"},{"policy_key":"goals.write","authorize":false}]
\* has been delivered with "authorize":true added to the first record and the
\* second record as it was.
C18_Witness ==
    \E r \in DOMAIN sess :
        /\ sess[r].phase = "stopped"
        /\ sess[r].url = URL_AUTHORIZE_POLICIES
        /\ sess[r].body
               = Serialize(JArr(<< Member(K_policy_key, JStr(S_teams_manage)),
                                   Policy(S_goals_write, JFalse) >>))
        /\ sess[r].delivered
               = Serialize(JArr(<< JObj(<<K_policy_key, K_authorize>>,
                                        <<JStr(S_teams_manage), JTrue>>),
                                   Policy(S_goals_write, JFalse) >>))

\* The pipeline has handled at most the first chunk of the session's response:
\* one decode, one parse and one dispatch at most; the first data event is
\* handled; the handled chunk starts the body, was decoded by itself and
\* parsed by itself; and the bytes after it were delivered as sent.
FirstChunkOnly(s) ==
    /\ s.decodes <= 1 /\ s.parses <= 1 /\ s.dispatches <= 1
    /\ s.chunks >= 1 => s.decodes = 1
    /\ s.decodes = 1 =>
           /\ s.hfrom = 0 /\ s.hto >= 1
           /\ s.str = decode(TextDecoder, SubSeq(s.body, 1, s.hto)).str
           /\ s.parsed = JSON_parse(s.str).ok
           /\ s.dispatches = IF s.parsed THEN 1 ELSE 0
           /\ SubSeq(s.delivered, Len(s.delivered) - (s.pos - s.hto) + 1,
                     Len(s.delivered))
                  = SubSeq(s.body, s.hto + 1, s.pos)

\* The handler wrote once and disconnected.
WroteOnceAndDisconnected(s) ==
    s.writes = 1 /\ s.disconnects = 1 /\ s.filter = "disconnected"

====
